---- MODULE Spec2Model ----
(***************************************************************************)
(* Model of _themes/conan/__init__.py: the Sphinx theme module with its    *)
(* two constants, the no-op setup(app) hook and get_html_theme_path().     *)
(*                                                                         *)
(* A path is a sequence of one-character strings, so that os.path.dirname, *)
(* os.path.abspath and os.path.normpath are computed on the characters as  *)
(* posixpath computes them.  The process state the module can observe is   *)
(* the module globals, the current working directory and the host's app    *)
(* handles.                                                                *)
(***************************************************************************)
EXTENDS Integers, Sequences, FiniteSets, TLC

\* ---------------------------------------------------------------- bounds
\* Longest enumerated module file location (in characters).
MaxLen == 3

\* Most calls of setup(app) that are counted.
MaxSetup == 2

\* ------------------------------------------------------------ characters
sep == "/"

curdir == "."

\* Characters of the enumerated file locations.
Alphabet == {sep, curdir, "x"}

\* ------------------------------------------------------ string helpers
\* str.rfind(sep) + 1: the 1-based index of the last separator, 0 if none.
RECURSIVE rfind1(_)
rfind1(p) ==
    IF p = << >> THEN 0
    ELSE IF p[Len(p)] = sep THEN Len(p)
    ELSE rfind1(SubSeq(p, 1, Len(p) - 1))

\* str.rstrip(sep)
RECURSIVE rstrip(_)
rstrip(s) ==
    IF s # << >> /\ s[Len(s)] = sep THEN rstrip(SubSeq(s, 1, Len(s) - 1))
    ELSE s

\* head == sep * len(head)
allsep(s) == \A i \in 1..Len(s) : s[i] = sep

\* str.startswith(prefix)
startswith(s, prefix) ==
    /\ Len(s) >= Len(prefix)
    /\ SubSeq(s, 1, Len(prefix)) = prefix

\* str.split(sep): the components between the separators, empty ones kept.
RECURSIVE split(_)
split(p) ==
    LET i == rfind1(p)
    IN  IF i = 0 THEN << p >>
        ELSE split(SubSeq(p, 1, i - 1)) \o << SubSeq(p, i + 1, Len(p)) >>

\* sep.join(comps)
RECURSIVE sepjoin(_)
sepjoin(comps) ==
    IF comps = << >> THEN << >>
    ELSE IF Len(comps) = 1 THEN comps[1]
    ELSE sepjoin(SubSeq(comps, 1, Len(comps) - 1)) \o << sep >> \o comps[Len(comps)]

\* sep * n
RECURSIVE seps(_)
seps(n) == IF n = 0 THEN << >> ELSE << sep >> \o seps(n - 1)

\* ------------------------------------------------------------ posixpath
\* os.path.dirname(p)
dirname(p) ==
    LET i == rfind1(p)
        head == SubSeq(p, 1, i)
    IN  IF head # << >> /\ ~allsep(head) THEN rstrip(head) ELSE head

\* os.path.isabs(s)
isabs(s) == startswith(s, << sep >>)

\* os.path.join(a, b)
join(a, b) ==
    IF startswith(b, << sep >>) THEN b
    ELSE IF a = << >> \/ a[Len(a)] = sep THEN a \o b
    ELSE a \o << sep >> \o b

\* The loop of os.path.normpath over the components comps[k..].
RECURSIVE normcomps(_, _, _, _)
normcomps(comps, k, initial_slashes, new_comps) ==
    IF k > Len(comps) THEN new_comps
    ELSE
        LET comp == comps[k]
            n == Len(new_comps)
        IN  IF comp = << >> \/ comp = << curdir >>
            THEN normcomps(comps, k + 1, initial_slashes, new_comps)
            ELSE IF \/ comp # << curdir, curdir >>
                    \/ (initial_slashes = 0 /\ n = 0)
                    \/ (n > 0 /\ new_comps[n] = << curdir, curdir >>)
            THEN normcomps(comps, k + 1, initial_slashes, Append(new_comps, comp))
            ELSE IF n > 0
            THEN normcomps(comps, k + 1, initial_slashes, SubSeq(new_comps, 1, n - 1))
            ELSE normcomps(comps, k + 1, initial_slashes, new_comps)

\* os.path.normpath(path)
normpath(path) ==
    IF path = << >> THEN << curdir >>
    ELSE
        LET initial_slashes ==
                IF ~startswith(path, << sep >>) THEN 0
                ELSE IF startswith(path, << sep, sep >>)
                        /\ ~startswith(path, << sep, sep, sep >>) THEN 2
                ELSE 1
            new_comps == normcomps(split(path), 1, initial_slashes, << >>)
            joined == seps(initial_slashes) \o sepjoin(new_comps)
        IN  IF joined = << >> THEN << curdir >> ELSE joined

\* os.path.normpath used where os.path.abspath is meant: the working
\* directory is never joined in.
abspath_normpath(path, getcwd) == normpath(path)

\* os.path.abspath(path) in a process whose os.getcwd() is getcwd.
abspath(path, getcwd) ==
    IF ~isabs(path) THEN normpath(join(getcwd, path)) ELSE normpath(path)

\* The value of get_html_theme_path() for module location file and the
\* working directory getcwd at the time of the call.
theme_path(file, getcwd) ==
    LET cur_dir == abspath(dirname(dirname(file)), getcwd)
    IN  << cur_dir >>

\* ---------------------------------------------------------------- inputs
\* The installation of the scenario, /x/y/_themes/conan/__init__.
InstalledFile ==
    << "/", "x", "/", "y", "/", "_", "t", "h", "e", "m", "e", "s", "/",
       "c", "o", "n", "a", "n", "/", "_", "_", "i", "n", "i", "t", "_", "_" >>

\* The same module imported through a relative sys.path entry.
RelativeFile ==
    << "_", "t", "h", "e", "m", "e", "s", "/",
       "c", "o", "n", "a", "n", "/", "_", "_", "i", "n", "i", "t", "_", "_" >>

\* The package imported from the working directory.
PackageFile ==
    << "c", "o", "n", "a", "n", "/", "_", "_", "i", "n", "i", "t", "_", "_" >>

\* A bare relative file name.
BareFile == << "_", "_", "i", "n", "i", "t", "_", "_" >>

\* A module file directly under the filesystem root.
RootFile == << "/", "_", "_", "i", "n", "i", "t", "_", "_" >>

\* An absolute location whose directory part ends in "..".
DotDotFile ==
    << "/", "x", "/", "y", "/", ".", ".", "/",
       "_", "_", "i", "n", "i", "t", "_", "_" >>

NamedFiles ==
    {InstalledFile, RelativeFile, PackageFile, BareFile, RootFile, DotDotFile}

\* Every string of 1..MaxLen characters of Alphabet, and the named locations.
Files == NamedFiles \cup UNION {[1..k -> Alphabet] : k \in 1..MaxLen}

\* The working directories the process can be in (os.getcwd() is absolute
\* and normalised).
Cwds == {<< "/" >>, << "/", "x" >>, << "/", "x", "/", "y" >>}

\* The handles the host passes to setup: the null handle and an application.
Apps == {"None", "app"}

\* ----------------------------------------------------------------- state
VARIABLES
    __file__,           \* module global: the recorded file location
    __version__,        \* module global
    __version_full__,   \* module global
    cwd,                \* the process's current working directory
    loadCwd,            \* the working directory when the module was imported
    appThemes,          \* state of the application handle: themes registered on it
    nsetup,             \* number of calls of setup so far
    arg,                \* the argument of the latest call of setup
    setupRet,           \* the value the latest call of setup returned
    raised,             \* the operations that have raised an error
    first,              \* the first call of get_html_theme_path, if any
    last                \* the latest call of get_html_theme_path, if any

vars ==
    << __file__, __version__, __version_full__, cwd, loadCwd, appThemes,
       nsetup, arg, setupRet, raised, first, last >>

\* Module import: lines 10-11 bind the constants, the import system binds
\* __file__; nothing has been called yet.
Init ==
    /\ __file__ \in Files
    /\ __version__ = "0.2.0"
    /\ __version_full__ = __version__
    /\ loadCwd \in Cwds
    /\ cwd = loadCwd
    /\ appThemes = {}
    /\ nsetup = 0
    /\ arg = "unset"
    /\ setupRet = "unset"
    /\ raised = {}
    /\ first = {}
    /\ last = {}

\* A registration hook that registers the theme on the handle, and so fails
\* on a null handle.
setup_register(app) ==
    /\ nsetup < MaxSetup
    /\ nsetup' = nsetup + 1
    /\ arg' = app
    /\ IF app = "None"
       THEN /\ raised' = raised \cup {"setup"}
            /\ UNCHANGED << appThemes, setupRet >>
       ELSE /\ appThemes' = appThemes \cup {"conan"}
            /\ setupRet' = "None"
            /\ UNCHANGED raised
    /\ UNCHANGED << __file__, __version__, __version_full__, cwd, loadCwd,
                    first, last >>

\* def setup(app): pass
setup(app) ==
    /\ nsetup < MaxSetup
    /\ nsetup' = nsetup + 1
    /\ arg' = app
    /\ setupRet' = "None"
    /\ UNCHANGED << __file__, __version__, __version_full__, cwd, loadCwd,
                    appThemes, raised, first, last >>

\* The record of one call of get_html_theme_path that returned ret.
Call(ret) == [cwd |-> cwd, nsetup |-> nsetup, arg |-> arg, ret |-> ret]

\* A path provider that indexes the components of __file__ and so fails on a
\* location with fewer than two directory levels.
get_html_theme_path_indexed ==
    LET ret == theme_path(__file__, cwd)
    IN  IF Len(split(__file__)) < 3
        THEN /\ raised' = raised \cup {"get_html_theme_path"}
             /\ UNCHANGED << __file__, __version__, __version_full__, cwd,
                             loadCwd, appThemes, nsetup, arg, setupRet,
                             first, last >>
        ELSE /\ first' = IF first = {} THEN {Call(ret)} ELSE first
             /\ last' = {Call(ret)}
             /\ UNCHANGED << __file__, __version__, __version_full__, cwd,
                             loadCwd, appThemes, nsetup, arg, setupRet, raised >>

\* A path provider that knows the theme directory only once the hook has
\* registered the theme.
get_html_theme_path_registered ==
    LET ret == IF nsetup = 0 THEN << >> ELSE theme_path(__file__, cwd)
    IN  /\ first' = IF first = {} THEN {Call(ret)} ELSE first
        /\ last' = {Call(ret)}
        /\ UNCHANGED << __file__, __version__, __version_full__, cwd, loadCwd,
                        appThemes, nsetup, arg, setupRet, raised >>

\* def get_html_theme_path()
get_html_theme_path ==
    LET ret == theme_path(__file__, cwd)
    IN  /\ first' = IF first = {} THEN {Call(ret)} ELSE first
        /\ last' = {Call(ret)}
        /\ UNCHANGED << __file__, __version__, __version_full__, cwd, loadCwd,
                        appThemes, nsetup, arg, setupRet, raised >>

\* The host process changes its working directory (what os.getcwd() returns
\* inside os.path.abspath).
chdir(d) ==
    /\ d # cwd
    /\ cwd' = d
    /\ UNCHANGED << __file__, __version__, __version_full__, loadCwd,
                    appThemes, nsetup, arg, setupRet, raised, first, last >>

Next ==
    \/ \E app \in Apps : setup(app)
    \/ get_html_theme_path
    \/ \E d \in Cwds : chdir(d)

Spec == Init /\ [][Next]_vars

\* ------------------------------------------------- filesystem vocabulary
\* What the claims mean by "the directory that contains the module file",
\* "parent" and "exists": the directory the filesystem reaches by walking an
\* absolute path (no symbolic links), as the sequence of its names.
RECURSIVE walk(_, _, _)
walk(comps, k, dir) ==
    IF k > Len(comps) THEN dir
    ELSE IF comps[k] = << >> \/ comps[k] = << curdir >>
    THEN walk(comps, k + 1, dir)
    ELSE IF comps[k] = << curdir, curdir >>
    THEN walk(comps, k + 1, SubSeq(dir, 1, Len(dir) - 1))
    ELSE walk(comps, k + 1, Append(dir, comps[k]))

\* The directory an absolute path names.
resolve(path) == walk(split(path), 1, << >>)

\* The parent of a directory; the root is its own parent.
parent(dir) == SubSeq(dir, 1, Len(dir) - 1)

\* The location names a file: its last component is a name.
IsModuleFile(file) ==
    LET comps == split(file)
        name == comps[Len(comps)]
    IN  name \notin {<< >>, << curdir >>, << curdir, curdir >>}

\* The absolute location the module was imported from.
LoadedFrom == join(loadCwd, __file__)

\* The directory that contains the module file.
ModuleDir == resolve(dirname(LoadedFrom))

\* The directories that exist: those the filesystem walked through to reach
\* the module file, and the working directories with their ancestors.
Directories ==
    LET comps == split(dirname(LoadedFrom))
        walked == {walk(comps, 1, << >>)}
                      \cup {walk(SubSeq(comps, 1, k), 1, << >>) : k \in 1..Len(comps)}
        ancestors(dir) == {SubSeq(dir, 1, k) : k \in 0..Len(dir)}
    IN  UNION {ancestors(d) : d \in walked \cup {resolve(c) : c \in Cwds}}

InstalledThemes ==
    << "/", "x", "/", "y", "/", "_", "t", "h", "e", "m", "e", "s" >>

\* ---------------------------------------------------------------- claims
\* C1: get_html_theme_path() returns a sequence of length exactly 1 whose only
\* element is an absolute path, for every module file location, relative
\* ones included.
C1_OneAbsolutePath ==
    \A l \in last : Len(l.ret) = 1 /\ isabs(l.ret[1])

\* C1 witness: a call has returned for a relative file location.
C1_Witness ==
    /\ last # {}
    /\ ~isabs(__file__)
    /\ \E l \in last : l.ret = << l.cwd >>

\* C2 (as claimed): for every module file location the single element
\* returned names the parent of the directory that contains the module file;
\* for /x/y/_themes/conan/__init__ it is exactly /x/y/_themes.
C2_ParentOfModuleDir ==
    \A l \in last :
        IsModuleFile(__file__) =>
            /\ Len(l.ret) = 1
            /\ resolve(l.ret[1]) = parent(ModuleDir)
            /\ (__file__ = InstalledFile => l.ret = << InstalledThemes >>)

\* C3 (as claimed): any two calls of get_html_theme_path() in one process
\* return an identical value, whatever happens between them.
C3_StableResult ==
    \A f \in first : \A l \in last : f.ret = l.ret

\* C4: setup(app) returns None and raises no error, for every argument
\* (the null handle included) and however often it is called.
C4_SetupReturnsNone ==
    /\ "setup" \notin raised
    /\ nsetup > 0 => setupRet = "None"

\* C4 witness: setup has been called more than once, last with the null handle.
C4_Witness ==
    /\ nsetup > 1
    /\ arg = "None"
    /\ setupRet = "None"

\* C5 (as claimed): if the module file was loaded from disk, the path returned
\* names a directory that exists.
C5_ResultExists ==
    \A l \in last :
        IsModuleFile(__file__) => resolve(l.ret[1]) \in Directories

\* C6: neither operation changes any state: the constants stay '0.2.0' and
\* equal, and no step changes them, the app handle's state or the module's
\* recorded file location.
C6_NoStateChange ==
    /\ [](__version__ = "0.2.0" /\ __version_full__ = __version__)
    /\ [][/\ __version__' = __version__
          /\ __version_full__' = __version_full__
          /\ __file__' = __file__
          /\ appThemes' = appThemes]_vars

\* C6 witness: both operations have been called, setup with the app handle.
C6_Witness ==
    /\ nsetup > 0
    /\ arg = "app"
    /\ last # {}
    /\ appThemes = {}

\* C7 (as claimed): the result does not depend on the working directory at
\* the time of the call: calls made in different working directories return
\* the same value.
C7_IndependentOfCwd ==
    \A f \in first : \A l \in last : f.cwd # l.cwd => f.ret = l.ret

\* C8: the result does not depend on the registration hook: with everything
\* else the computation reads (the working directory) equal, calls made after
\* different numbers of setup calls, with different arguments, return the
\* same value.
C8_IndependentOfSetup ==
    \A f \in first : \A l \in last : f.cwd = l.cwd => f.ret = l.ret

\* C8 witness: one call before any setup and one after two setups, the last
\* with the app handle, in the same working directory.
C8_Witness ==
    \E f \in first : \E l \in last :
        /\ f.nsetup = 0
        /\ l.nsetup > 1
        /\ l.arg = "app"
        /\ f.cwd = l.cwd
        /\ f.ret = l.ret

====
